---- MODULE Spec2Model ----
(***************************************************************************)
(* elf2uf2-rs: translation of an ELF32 image into a stream of UF2 blocks.  *)
(*                                                                         *)
(* The model follows src/main.rs: main() creates the output file, opens    *)
(* the input, runs elf2uf2() and removes the output file when elf2uf2()    *)
(* fails.  elf2uf2() reads the header, builds the page map, checks it,     *)
(* and then, page by page, zeroes the data buffer, realizes the page,      *)
(* writes header / data / footer and flushes.                              *)
(*                                                                         *)
(* The modules elf, address_range and uf2 are used by main.rs but their    *)
(* text is not part of the sources at hand; what they do is modelled from  *)
(* the design document (sections 3, 4.1 to 4.4 and 6) and marked so.       *)
(***************************************************************************)
EXTENDS Integers, Sequences, FiniteSets, TLC

VARIABLES
    pc,            \* position in main() / elf2uf2()
    opts,          \* OPTS: [deploy, verbose, output]
    fsFiles,       \* output-side paths that exist in the file system
    created,       \* the path main() created for this run (NoPath before)
    removeCalled,  \* the path handed to fs::remove_file (NoPath if none)
    eh,            \* the parsed ELF header: [entry |-> ...] (NoHeader before)
    phs,           \* the program-header table read from the input
    pages,         \* the page map: page address -> sequence of fragments
    iter,          \* pages.into_iter(): the page addresses still to come
    enum_count,    \* the counter of .enumerate()
    page_num,      \* the loop variable page_num
    last_page_num, \* pages.len() - 1
    block_header,  \* Uf2BlockHeader
    block_data,    \* Uf2BlockData, [u8; 476]
    out,           \* what the output stream has received, in order
    flushed,       \* how many elements of out the last flush covered
    ioLog,         \* the order of stream operations: <<kind, page number>>
    pb,            \* the progress bar: [present, total, added]
    result,        \* what elf2uf2() returned ("none" while running)
    mainResult     \* what main() returned ("none" while running)

vars == <<pc, opts, fsFiles, created, removeCalled, eh, phs, pages, iter,
          enum_count, page_num, last_page_num, block_header, block_data,
          out, flushed, ioLog, pb, result, mainResult>>

(***************************************************************************)
(* Bounds of the model.                                                    *)
(***************************************************************************)
\* the number of program-header entries of an input
MaxPh == 2
\* the length of the input file in bytes
FileLen == 4318

(***************************************************************************)
(* Program constants.                                                      *)
(***************************************************************************)
PAGE_SIZE == 256
BLOCK_DATA_SIZE == 476
BLOCK_SIZE == 512
RAM_NIBBLE == 2
NIBBLE_SHIFT == 28

UF2_MAGIC_START0 == "UF2_MAGIC_START0"
UF2_MAGIC_START1 == "UF2_MAGIC_START1"
UF2_MAGIC_END == "UF2_MAGIC_END"
UF2_FLAG_FAMILY_ID_PRESENT == "UF2_FLAG_FAMILY_ID_PRESENT"
RP2040_FAMILY_ID == "RP2040_FAMILY_ID"

\* start (inclusive) and end (exclusive) of the legal windows of each style
FLASH_START == 268435456      \* 0x10000000
FLASH_END   == 352321536      \* 0x15000000
MAIN_RAM_START == 536870912   \* 0x20000000
MAIN_RAM_END   == 537141248   \* 0x20042000

RP2040_ADDRESS_RANGES_FLASH == << [from |-> FLASH_START, to |-> FLASH_END] >>
RP2040_ADDRESS_RANGES_RAM == << [from |-> MAIN_RAM_START, to |-> MAIN_RAM_END] >>

NoPath == [stem |-> "", ext |-> ""]
NoOpts == [deploy |-> FALSE, verbose |-> FALSE, input |-> NoPath, output |-> NoPath]
NoHeader == [entry |-> -1]
EmptyPages == << >>

(***************************************************************************)
(* The input file.  Its byte at offset o is never zero and depends on o    *)
(* with a period that no page offset shares, so that a byte copied from a  *)
(* wrong offset or left over from another page shows.                      *)
(***************************************************************************)
FileByte(o) == 1 + (o % 251)

PT_LOAD == "PT_LOAD"
PT_NOTE == "PT_NOTE"

Ph(t, o, a, f, m) == [typ |-> t, offset |-> o, paddr |-> a, filesz |-> f, memsz |-> m]

\* program-header entries an input may hold
PhCandidates ==
    { Ph(PT_LOAD, 1024, FLASH_START, 600, 600),          \* three pages of flash
      Ph(PT_LOAD, 512, FLASH_START + 608, 16, 80),       \* shares the third page,
                                                         \* with a zero-fill tail
      Ph(PT_LOAD, 640, FLASH_START + 32, 16, 16),        \* overlaps the first one
      Ph(PT_LOAD, 768, FLASH_END - 16, 32, 32),          \* straddles the end of flash
      Ph(PT_LOAD, 2048, MAIN_RAM_START, 40, 40),         \* first page of RAM
      Ph(PT_LOAD, 4300, MAIN_RAM_START + 500, 24, 24),   \* second and third page of
                                                         \* RAM; the bytes of the third
                                                         \* lie past the end of the file
      Ph(PT_NOTE, 0, 0, 10, 10),                         \* not loadable
      Ph(PT_LOAD, 0, 805306368, 0, 0) }                  \* loadable, memory size 0

RECURSIVE SeqsUpTo(_, _)
SeqsUpTo(S, n) ==
    IF n = 0 THEN { << >> }
    ELSE LET shorter == SeqsUpTo(S, n - 1)
         IN shorter \cup { Append(s, x) : s \in { t \in shorter : Len(t) = n - 1 }, x \in S }

\* the program-header tables an input may hold: no entry twice
PhTables == { t \in SeqsUpTo(PhCandidates, MaxPh) :
                \A i, j \in 1..Len(t) : i # j => t[i] # t[j] }

\* the entry points an input may hold
Entries == { FLASH_START + 1,            \* FLASH style
             MAIN_RAM_START + 1,         \* RAM style, first page | 1
             MAIN_RAM_START,             \* RAM style, first page, low bit clear
             MAIN_RAM_START + 257 }      \* RAM style, second page | 1

\* the command lines
Path(s, e) == [stem |-> s, ext |-> e]
NoOutput == Path("", "")
Cmd(d, v, o) == [deploy |-> d, verbose |-> v, input |-> Path("fw", "elf"), output |-> o]
OptsSet == { Cmd(d, v, o) : d \in BOOLEAN, v \in BOOLEAN,
                             o \in { NoOutput, Path("img", "bin") } }

(***************************************************************************)
(* address_range: a range is legal iff one window holds all of it.         *)
(***************************************************************************)
check_address_range(valid_ranges, addr, size) ==
    \E i \in 1..Len(valid_ranges) :
        valid_ranges[i].from <= addr /\ addr + size <= valid_ranges[i].to

(***************************************************************************)
(* elf: the page map.  A fragment is (file_offset, page_offset, bytes).    *)
(***************************************************************************)
Fragment(fo, po, n) == [file_offset |-> fo, page_offset |-> po, bytes |-> n]

Built(m) == [err |-> "none", pages |-> m]
Refused(kind) == [err |-> kind, pages |-> EmptyPages]

FragmentsOverlap(f, g) ==
    f.page_offset < g.page_offset + g.bytes /\ g.page_offset < f.page_offset + f.bytes

\* pages.entry(key).or_default().push(frag)
PushFragment(m, key, frag) ==
    [k \in DOMAIN m \cup {key} |->
        IF k = key
        THEN Append(IF key \in DOMAIN m THEN m[key] ELSE << >>, frag)
        ELSE m[k]]

\* the bytes [addr, addr + remaining) of one entry, split at the page boundaries
RECURSIVE SplitEntry(_, _, _, _)
SplitEntry(m, addr, remaining, file_offset) ==
    IF remaining = 0 THEN Built(m)
    ELSE LET off  == addr % PAGE_SIZE
             len  == IF remaining < PAGE_SIZE - off THEN remaining ELSE PAGE_SIZE - off
             key  == addr - off
             frag == Fragment(file_offset, off, len)
             old  == IF key \in DOMAIN m THEN m[key] ELSE << >>
         IN IF \E i \in 1..Len(old) : FragmentsOverlap(frag, old[i])
            THEN Refused("RangeError")
            ELSE SplitEntry(PushFragment(m, key, frag), addr + len,
                            remaining - len, file_offset + len)

Participates(e) == e.typ = PT_LOAD /\ e.memsz > 0

RECURSIVE ScanEntries(_, _, _, _)
ScanEntries(table, valid_ranges, k, m) ==
    IF k > Len(table) THEN Built(m)
    ELSE LET e == table[k]
         IN IF ~Participates(e) THEN ScanEntries(table, valid_ranges, k + 1, m)
            ELSE IF ~check_address_range(valid_ranges, e.paddr, e.filesz)
                 THEN Refused("RangeError")
                 ELSE LET r == SplitEntry(m, e.paddr, e.filesz, e.offset)
                      IN IF r.err # "none" THEN r
                         ELSE ScanEntries(table, valid_ranges, k + 1, r.pages)

read_and_check_elf32_ph_entries(table, valid_ranges) ==
    ScanEntries(table, valid_ranges, 1, EmptyPages)

\* the keys of the page map in the order its iteration yields them: ascending
RECURSIVE KeysAscending(_)
KeysAscending(S) ==
    IF S = {} THEN << >>
    ELSE LET lo == CHOOSE x \in S : \A y \in S : x <= y
         IN << lo >> \o KeysAscending(S \ {lo})

(***************************************************************************)
(* elf: realize_page copies each fragment's bytes from the input into the  *)
(* buffer; a read that reaches past the end of the file fails.             *)
(***************************************************************************)
CopyFragment(buf, f) ==
    [i \in 1..Len(buf) |->
        IF f.page_offset < i /\ i <= f.page_offset + f.bytes
        THEN FileByte(f.file_offset + (i - 1 - f.page_offset))
        ELSE buf[i]]

RECURSIVE RealizeFrom(_, _, _)
RealizeFrom(fragments, buf, k) ==
    IF k > Len(fragments) THEN [ok |-> TRUE, buf |-> buf]
    ELSE IF fragments[k].file_offset + fragments[k].bytes > FileLen
         THEN [ok |-> FALSE, buf |-> buf]
         ELSE RealizeFrom(fragments, CopyFragment(buf, fragments[k]), k + 1)

realize_page(fragments, buf) == RealizeFrom(fragments, buf, 1)

(***************************************************************************)
(* main.rs                                                                 *)
(***************************************************************************)
\* Path::with_extension("uf2")
with_extension(path, ext) == [path EXCEPT !.ext = ext]

\* Opts::output_path
output_path(o) ==
    IF o.output # NoOutput THEN with_extension(o.output, "uf2")
    ELSE with_extension(o.input, "uf2")

\* pico_drive.join("out.uf2")
deployed_path == Path("PICO/out", "uf2")

\* the file main() creates
CreatedPath(o) == IF o.deploy THEN deployed_path ELSE output_path(o)

\* variant: the deploy case forgotten when removing
RemovedPathNoDeploy(o) == output_path(o)

\* the file main() removes when elf2uf2() has failed
RemovedPath(o) == IF o.deploy THEN deployed_path ELSE output_path(o)

ram_style(entry) == RAM_NIBBLE = entry \div (2 ^ NIBBLE_SHIFT)

valid_ranges(entry) ==
    IF ram_style(entry) THEN RP2040_ADDRESS_RANGES_RAM ELSE RP2040_ADDRESS_RANGES_FLASH

\* x | 0x1
BitOr1(x) == IF x % 2 = 1 THEN x ELSE x + 1

\* pages.is_empty()
is_empty(m) == DOMAIN m = {}

\* pages.len()
PagesLen(m) == Cardinality(DOMAIN m)

\* variant: the low bit not set
expected_ep_no_bit(m) == KeysAscending(DOMAIN m)[1]

\* pages.keys().next().unwrap() | 0x1
expected_ep(m) == BitOr1(KeysAscending(DOMAIN m)[1])

\* pages.into_iter(): the keys in the order the loop visits them
into_iter(m) == KeysAscending(DOMAIN m)

\* variant: the buffer is not zeroed between pages
ZeroBufSkipped(buf) == buf

\* block_data.iter_mut().for_each(|v| *v = 0)
ZeroBuf(buf) == [i \in 1..Len(buf) |-> 0]

NoBlockHeader ==
    [magic_start0 |-> "", magic_start1 |-> "", flags |-> "", target_addr |-> 0,
     payload_size |-> 0, block_no |-> 0, num_blocks |-> 0, file_size |-> ""]

\* variant: the total count taken from the last page's number
InitialBlockHeaderLastNum(m) ==
    [magic_start0 |-> UF2_MAGIC_START0, magic_start1 |-> UF2_MAGIC_START1,
     flags |-> UF2_FLAG_FAMILY_ID_PRESENT, target_addr |-> 0,
     payload_size |-> PAGE_SIZE, block_no |-> 0, num_blocks |-> PagesLen(m) - 1,
     file_size |-> RP2040_FAMILY_ID]

\* the header elf2uf2() builds before the loop
InitialBlockHeader(m) ==
    [magic_start0 |-> UF2_MAGIC_START0, magic_start1 |-> UF2_MAGIC_START1,
     flags |-> UF2_FLAG_FAMILY_ID_PRESENT, target_addr |-> 0,
     payload_size |-> PAGE_SIZE, block_no |-> 0, num_blocks |-> PagesLen(m),
     file_size |-> RP2040_FAMILY_ID]

\* variant: the target address is not set per page
PageBlockHeaderKeepAddr(h, target_addr, n) == [h EXCEPT !.block_no = n]

\* the header of one page: target address and block number are set per page
PageBlockHeader(h, target_addr, n) ==
    [h EXCEPT !.target_addr = target_addr, !.block_no = n]

NoProgress == [present |-> FALSE, total |-> 0, added |-> 0]

\* ProgressBar::new(pages.len() * 512) unless verbose or not deploying
NewProgress(o, m) ==
    IF ~o.verbose /\ o.deploy
    THEN [present |-> TRUE, total |-> PagesLen(m) * BLOCK_SIZE, added |-> 0]
    ELSE NoProgress

\* pb.add(512) when there is a progress bar
pb_add(p) == IF p.present THEN [p EXCEPT !.added = @ + BLOCK_SIZE] ELSE p

\* what the output stream receives
HeaderBytes(h) == [kind |-> "header", hdr |-> h, data |-> << >>, magic |-> ""]
DataBytes(d) == [kind |-> "data", hdr |-> NoBlockHeader, data |-> d, magic |-> ""]
FooterBytes == [kind |-> "footer", hdr |-> NoBlockHeader, data |-> << >>, magic |-> UF2_MAGIC_END]
PartialBytes == [kind |-> "partial", hdr |-> NoBlockHeader, data |-> << >>, magic |-> ""]

Io(op, n) == [op |-> op, page |-> n]

Init ==
    /\ pc = "start"
    /\ opts = NoOpts
    /\ fsFiles = {}
    /\ created = NoPath
    /\ removeCalled = NoPath
    /\ eh = NoHeader
    /\ phs = << >>
    /\ pages = EmptyPages
    /\ iter = << >>
    /\ enum_count = 0
    /\ page_num = 0
    /\ last_page_num = 0
    /\ block_header = NoBlockHeader
    /\ block_data = << >>
    /\ out = << >>
    /\ flushed = 0
    /\ ioLog = << >>
    /\ pb = NoProgress
    /\ result = "none"
    /\ mainResult = "none"

mainVars == <<opts, fsFiles, created, removeCalled, mainResult>>
elfVars == <<eh, phs, pages, iter, enum_count, page_num, last_page_num,
             block_header, block_data, out, flushed, ioLog, pb, result>>
loopVars == <<iter, enum_count, page_num, last_page_num, block_header, block_data, pb>>

\* main() returns early with an error
MainFails(why) ==
    /\ pc' = "done"
    /\ mainResult' = why

\* OPTS.set(Opts::parse()); serialport::available_ports()?
MainStart ==
    /\ pc = "start"
    /\ \E o \in OptsSet, portsOk \in BOOLEAN :
         /\ opts' = o
         /\ IF portsOk THEN pc' = "create" /\ mainResult' = mainResult
                       ELSE MainFails("Err")
    /\ UNCHANGED <<fsFiles, created, removeCalled>>
    /\ UNCHANGED elfVars

\* the output file: out.uf2 on the pico volume, or the output path
CreateOutput ==
    /\ pc = "create"
    /\ \E found \in BOOLEAN, createOk \in BOOLEAN :
         IF (opts.deploy /\ ~found) \/ ~createOk
         THEN MainFails("Err") /\ UNCHANGED <<fsFiles, created>>
         ELSE /\ created' = CreatedPath(opts)
              /\ fsFiles' = fsFiles \cup {CreatedPath(opts)}
              /\ pc' = "open_input"
              /\ mainResult' = mainResult
    /\ UNCHANGED <<opts, removeCalled>>
    /\ UNCHANGED elfVars

\* BufReader::new(File::open(input)?)
OpenInput ==
    /\ pc = "open_input"
    /\ \E openOk \in BOOLEAN :
         IF openOk THEN pc' = "read_header" /\ mainResult' = mainResult
                   ELSE MainFails("Err")
    /\ UNCHANGED <<opts, fsFiles, created, removeCalled>>
    /\ UNCHANGED elfVars

\* elf2uf2() returns
Return(r) ==
    /\ pc' = "returned"
    /\ result' = r

\* elf::read_and_check_elf32_header(&mut input)?
ReadHeader ==
    /\ pc = "read_header"
    /\ \E headerOk \in BOOLEAN, entry \in Entries :
         IF headerOk
         THEN /\ eh' = [entry |-> entry]
              /\ ioLog' = Append(ioLog, Io("read_header", -1))
              /\ pc' = "read_ph"
              /\ result' = result
         ELSE /\ Return("FormatError")
              /\ UNCHANGED <<eh, ioLog>>
    /\ UNCHANGED <<phs, pages, out, flushed>>
    /\ UNCHANGED loopVars
    /\ UNCHANGED mainVars

\* read_and_check_elf32_ph_entries(&mut input, &eh, valid_ranges)?
ReadPhEntries ==
    /\ pc = "read_ph"
    /\ \E table \in PhTables :
         LET r == read_and_check_elf32_ph_entries(table, valid_ranges(eh.entry))
         IN /\ phs' = table
            /\ ioLog' = Append(ioLog, Io("read_ph", -1))
            /\ IF r.err = "none"
               THEN pages' = r.pages /\ pc' = "check_pages" /\ result' = result
               ELSE pages' = pages /\ Return(r.err)
    /\ UNCHANGED <<eh, out, flushed>>
    /\ UNCHANGED loopVars
    /\ UNCHANGED mainVars

\* let last_page_num = pages.len() - 1
LastPageNum(m) == PagesLen(m) - 1

\* variant: the entry point of a RAM binary is not checked
EntryPointUnchecked(entry, m) == TRUE

\* the RAM entry point is the first page | 1
EntryPointOk(entry, m) == ram_style(entry) => entry = expected_ep(m)

\* variant: the page map is not checked for being empty
CheckPagesNoEmpty ==
    /\ pc = "check_pages"
    /\ IF ~is_empty(pages) /\ ~EntryPointOk(eh.entry, pages)
       THEN Return("RangeError") /\ UNCHANGED loopVars
       ELSE /\ block_header' = InitialBlockHeader(pages)
            /\ block_data' = [i \in 1..BLOCK_DATA_SIZE |-> 0]
            /\ pb' = NewProgress(opts, pages)
            /\ last_page_num' = LastPageNum(pages)
            /\ iter' = into_iter(pages)
            /\ enum_count' = 0
            /\ page_num' = page_num
            /\ pc' = "next_page"
            /\ result' = result
    /\ UNCHANGED <<eh, phs, pages, out, flushed, ioLog>>
    /\ UNCHANGED mainVars

\* the checks of the page map, then the set-up of the loop
CheckPages ==
    /\ pc = "check_pages"
    /\ IF is_empty(pages)
       THEN Return("EmptyImageError") /\ UNCHANGED loopVars
       ELSE IF ~EntryPointOk(eh.entry, pages)
       THEN Return("RangeError") /\ UNCHANGED loopVars
       ELSE /\ block_header' = InitialBlockHeader(pages)
            /\ block_data' = [i \in 1..BLOCK_DATA_SIZE |-> 0]
            /\ pb' = NewProgress(opts, pages)
            /\ last_page_num' = LastPageNum(pages)
            /\ iter' = into_iter(pages)
            /\ enum_count' = 0
            /\ page_num' = page_num
            /\ pc' = "next_page"
            /\ result' = result
    /\ UNCHANGED <<eh, phs, pages, out, flushed, ioLog>>
    /\ UNCHANGED mainVars
\* variant: the counter does not advance
NextCountStuck(n) == n

\* the counter of enumerate() after it has yielded an item
NextCount(n) == n + 1

\* variant: the header is written before the page is realized
NextPageHeaderFirst ==
    /\ pc = "next_page"
    /\ iter # << >>
    /\ \E readOk \in BOOLEAN :
         LET target_addr == Head(iter)
             h == PageBlockHeader(block_header, target_addr, enum_count)
             r == realize_page(pages[target_addr], ZeroBuf(block_data))
         IN /\ iter' = Tail(iter)
            /\ page_num' = enum_count
            /\ enum_count' = enum_count + 1
            /\ block_header' = h
            /\ block_data' = r.buf
            /\ out' = Append(out, HeaderBytes(h))
            /\ IF readOk /\ r.ok
               THEN /\ ioLog' = ioLog \o << Io("realize", enum_count),
                                            Io("write_header", enum_count) >>
                    /\ pc' = "write_data"
                    /\ result' = result
               ELSE /\ ioLog' = Append(ioLog, Io("realize_failed", enum_count))
                    /\ Return("IOError")
    /\ UNCHANGED <<eh, phs, pages, last_page_num, flushed, pb>>
    /\ UNCHANGED mainVars

\* one turn of the loop up to realize_page: the next page of the iteration,
\* its header fields, the zeroed buffer, the fragments copied in
NextPage ==
    /\ pc = "next_page"
    /\ iter # << >>
    /\ \E readOk \in BOOLEAN :
         LET target_addr == Head(iter)
             r == realize_page(pages[target_addr], ZeroBuf(block_data))
         IN /\ iter' = Tail(iter)
            /\ page_num' = enum_count
            /\ enum_count' = NextCount(enum_count)
            /\ block_header' = PageBlockHeader(block_header, target_addr, enum_count)
            /\ block_data' = r.buf
            /\ IF readOk /\ r.ok
               THEN /\ ioLog' = Append(ioLog, Io("realize", enum_count))
                    /\ pc' = "write_header"
                    /\ result' = result
               ELSE /\ ioLog' = Append(ioLog, Io("realize_failed", enum_count))
                    /\ Return("IOError")
    /\ UNCHANGED <<eh, phs, pages, last_page_num, out, flushed, pb>>
    /\ UNCHANGED mainVars

\* output.write_all(bytes)?: all of the bytes, or an error after some of them
WriteAll(at, bytes, op, next) ==
    /\ pc = at
    /\ \E writeOk \in BOOLEAN, some \in BOOLEAN :
         IF writeOk
         THEN /\ out' = Append(out, bytes)
              /\ ioLog' = Append(ioLog, Io(op, page_num))
              /\ pc' = next
              /\ result' = result
         ELSE /\ out' = IF some THEN Append(out, PartialBytes) ELSE out
              /\ ioLog' = Append(ioLog, Io("write_failed", page_num))
              /\ Return("IOError")
    /\ UNCHANGED <<eh, phs, pages, flushed>>
    /\ UNCHANGED loopVars
    /\ UNCHANGED mainVars

WriteHeader == WriteAll("write_header", HeaderBytes(block_header), "write_header", "write_data")

WriteData == WriteAll("write_data", DataBytes(block_data), "write_data", "write_footer")

WriteFooter == WriteAll("write_footer", FooterBytes, "write_footer", "flush")

\* if page_num != last_page_num
AddsInLoop(n, last) == n # last

\* variant: the stream is not flushed after a block
FlushSkipped ==
    /\ pc = "flush"
    /\ pb' = IF AddsInLoop(page_num, last_page_num) THEN pb_add(pb) ELSE pb
    /\ pc' = "next_page"
    /\ UNCHANGED <<eh, phs, pages, iter, enum_count, page_num, last_page_num,
                   block_header, block_data, out, flushed, ioLog, result>>
    /\ UNCHANGED mainVars

\* output.flush()?; the progress bar moves for every page but the last
Flush ==
    /\ pc = "flush"
    /\ \E flushOk \in BOOLEAN :
         IF flushOk
         THEN /\ flushed' = Len(out)
              /\ ioLog' = Append(ioLog, Io("flush", page_num))
              /\ pb' = IF AddsInLoop(page_num, last_page_num) THEN pb_add(pb) ELSE pb
              /\ pc' = "next_page"
              /\ result' = result
         ELSE /\ ioLog' = Append(ioLog, Io("flush_failed", page_num))
              /\ Return("IOError")
              /\ UNCHANGED <<flushed, pb>>
    /\ UNCHANGED <<eh, phs, pages, iter, enum_count, page_num, last_page_num,
                   block_header, block_data, out>>
    /\ UNCHANGED mainVars

\* after the loop: drop(output); pb.add(512); Ok(())
Finish ==
    /\ pc = "next_page"
    /\ iter = << >>
    /\ pb' = pb_add(pb)
    /\ Return("Ok")
    /\ UNCHANGED <<eh, phs, pages, iter, enum_count, page_num, last_page_num,
                   block_header, block_data, out, flushed, ioLog>>
    /\ UNCHANGED mainVars

\* main() after elf2uf2(): on an error the output file is removed, and the
\* error of the removal, if it fails, is the one returned.  The serial bridge
\* that may follow a success is left out.
AfterElf2uf2 ==
    /\ pc = "returned"
    /\ IF result = "Ok"
       THEN /\ mainResult' = "Ok"
            /\ UNCHANGED <<fsFiles, removeCalled>>
       ELSE \E removeOk \in BOOLEAN :
              /\ removeCalled' = RemovedPath(opts)
              /\ IF removeOk
                 THEN fsFiles' = fsFiles \ {RemovedPath(opts)} /\ mainResult' = result
                 ELSE fsFiles' = fsFiles /\ mainResult' = "RemoveError"
    /\ pc' = "done"
    /\ UNCHANGED <<opts, created>>
    /\ UNCHANGED elfVars

Next ==
    \/ MainStart
    \/ CreateOutput
    \/ OpenInput
    \/ ReadHeader
    \/ ReadPhEntries
    \/ CheckPages
    \/ NextPage
    \/ WriteHeader
    \/ WriteData
    \/ WriteFooter
    \/ Flush
    \/ Finish
    \/ AfterElf2uf2

Spec == Init /\ [][Next]_vars
(***************************************************************************)
(* Reading the output stream back.                                         *)
(***************************************************************************)
Last(q) == q[Len(q)]

InLoop == pc \in {"next_page", "write_header", "write_data", "write_footer", "flush"}

\* elf2uf2() has gone past the checks of the header and of the page map
PastChecks == InLoop \/ (pc \in {"returned", "done"} /\ eh # NoHeader)

\* the stream is a whole number of blocks: header, data, footer each
WholeBlocks(o) ==
    /\ Len(o) % 3 = 0
    /\ \A k \in 1..Len(o) :
         o[k].kind = (CASE k % 3 = 1 -> "header" [] k % 3 = 2 -> "data" [] OTHER -> "footer")

NumBlocks(o) == Len(o) \div 3

\* the header of block k (from 0) of a stream of whole blocks
HeaderOf(o, k) == o[3 * k + 1].hdr

LowestPage(m) == CHOOSE a \in DOMAIN m : \A b \in DOMAIN m : a <= b

\* the page addresses the bytes of entry e fall on
PagesOf(e) ==
    IF e.filesz = 0 THEN {}
    ELSE { q * PAGE_SIZE : q \in (e.paddr \div PAGE_SIZE)..((e.paddr + e.filesz - 1) \div PAGE_SIZE) }

\* the pages the loadable entries of the table touch
PagesTouched(table) ==
    UNION { PagesOf(table[i]) : i \in { j \in 1..Len(table) : Participates(table[j]) } }

\* the byte the source file's segments place at addr; zero where none does
SourceByte(table, addr) ==
    LET holds == { i \in 1..Len(table) :
                     /\ Participates(table[i])
                     /\ table[i].paddr <= addr
                     /\ addr < table[i].paddr + table[i].filesz }
    IN IF holds = {} THEN 0
       ELSE LET i == CHOOSE j \in holds : TRUE
            IN FileByte(table[i].offset + (addr - table[i].paddr))

\* element k of the stream is a data region that decodes to the source's bytes
DataDecodes(o, k) ==
    /\ k > 1
    /\ o[k - 1].kind = "header"
    /\ Len(o[k].data) = BLOCK_DATA_SIZE
    /\ \A i \in 0..(BLOCK_DATA_SIZE - 1) :
         o[k].data[i + 1] =
            IF i < o[k - 1].hdr.payload_size
            THEN SourceByte(phs, o[k - 1].hdr.target_addr + i)
            ELSE 0

(***************************************************************************)
(* C1: when elf2uf2() succeeds, the stream holds exactly N blocks, N the   *)
(* number of pages of the page map; block k carries block number k, for    *)
(* k = 0 .. N-1 in the order of emission, and every block carries N as its *)
(* total count.                                                            *)
(***************************************************************************)
C1_BlockCountAndIndices ==
    result = "Ok" =>
        LET N == Cardinality(DOMAIN pages)
        IN /\ WholeBlocks(out)
           /\ NumBlocks(out) = N
           /\ \A k \in 0..(N - 1) :
                /\ HeaderOf(out, k).block_no = k
                /\ HeaderOf(out, k).num_blocks = N

C1_Witness == result = "Ok" /\ NumBlocks(out) = 3 /\ Len(phs) = 2

(***************************************************************************)
(* C2: the target addresses of the emitted blocks ascend strictly in the   *)
(* order of emission, whatever the order of the segments in the program-   *)
(* header table, and each is a multiple of the page size.                  *)
(***************************************************************************)
C2_AscendingTargets ==
    LET hs == { k \in 1..Len(out) : out[k].kind = "header" }
    IN /\ \A k \in hs : out[k].hdr.target_addr % PAGE_SIZE = 0
       /\ \A i, j \in hs :
            i < j => /\ out[i].hdr.block_no < out[j].hdr.block_no
                     /\ out[i].hdr.target_addr < out[j].hdr.target_addr

\* the table lists a segment of higher addresses first
C2_Witness ==
    /\ result = "Ok"
    /\ NumBlocks(out) = 3
    /\ Len(phs) = 2
    /\ Participates(phs[1]) /\ Participates(phs[2])
    /\ phs[1].paddr > phs[2].paddr

(***************************************************************************)
(* C3: a RAM-style binary (entry >> 28 = 2) whose page map has lowest page *)
(* P passes the checks only if entry = P | 1; with any other entry point   *)
(* elf2uf2() fails with a RangeError and the stream has received nothing.  *)
(***************************************************************************)
C3_RamEntryPoint ==
    (PastChecks /\ eh.entry \div (2 ^ 28) = 2 /\ DOMAIN pages # {}) =>
        LET P == LowestPage(pages)
        IN IF eh.entry = (IF P % 2 = 1 THEN P ELSE P + 1)
           THEN result # "RangeError"
           ELSE result = "RangeError" /\ out = << >>

\* the entry point is the lowest page with the low bit clear
C3_Witness ==
    /\ result = "RangeError"
    /\ DOMAIN pages # {}
    /\ eh.entry = LowestPage(pages)
    /\ eh.entry \div (2 ^ 28) = 2

(***************************************************************************)
(* C4: when the header is accepted and no program-header entry is loadable *)
(* with a memory size above zero, elf2uf2() fails with EmptyImageError and *)
(* the stream has received nothing.                                        *)
(***************************************************************************)
C4_EmptyImage ==
    (PastChecks /\ \A i \in 1..Len(phs) : phs[i].typ # PT_LOAD \/ phs[i].memsz = 0) =>
        /\ result = "EmptyImageError"
        /\ out = << >>
        /\ \A k \in 1..Len(ioLog) : ioLog[k].op \in {"read_header", "read_ph"}

C4_Witness ==
    /\ result = "EmptyImageError"
    /\ Len(phs) = 2
    /\ phs[1].typ # PT_LOAD
    /\ phs[2].typ = PT_LOAD /\ phs[2].memsz = 0

(***************************************************************************)
(* C5: errors are found before anything is emitted.  The header is         *)
(* validated before the program headers are scanned; the ranges of all     *)
(* loadable entries, the empty image and the RAM entry point are checked   *)
(* before the first page is realized or the first byte written; whenever   *)
(* elf2uf2() fails with a FormatError, RangeError or EmptyImageError the   *)
(* stream has received nothing.                                            *)
(***************************************************************************)
C5_ErrorsBeforeOutput ==
    /\ result \in {"FormatError", "RangeError", "EmptyImageError"} =>
         /\ out = << >>
         /\ flushed = 0
         /\ \A k \in 1..Len(ioLog) : ioLog[k].op \in {"read_header", "read_ph"}
    /\ \A k \in 1..Len(ioLog) :
         /\ ioLog[k].op = "read_header" => k = 1
         /\ ioLog[k].op = "read_ph" => k = 2 /\ ioLog[1].op = "read_header" /\ eh # NoHeader
         /\ ioLog[k].op \notin {"read_header", "read_ph"} =>
              /\ k > 2
              /\ ioLog[2].op = "read_ph"
              /\ DOMAIN pages # {}
              /\ \A i \in 1..Len(phs) :
                   (phs[i].typ = PT_LOAD /\ phs[i].memsz > 0) =>
                       \E w \in 1..Len(valid_ranges(eh.entry)) :
                           /\ valid_ranges(eh.entry)[w].from <= phs[i].paddr
                           /\ phs[i].paddr + phs[i].filesz <= valid_ranges(eh.entry)[w].to
              /\ eh.entry \div (2 ^ 28) = 2 => eh.entry = LowestPage(pages) + 1
    /\ out # << >> => Len(ioLog) > 2

\* the range check of a loadable entry has failed
C5_Witness ==
    /\ result = "RangeError"
    /\ pc = "done"
    /\ DOMAIN pages = {}
    /\ Len(phs) = 2
    /\ Participates(phs[1]) /\ Participates(phs[2])
(***************************************************************************)
(* C6: every data region of the stream decodes to the bytes the source     *)
(* file's segments place on its page, at target address + offset, and to   *)
(* zero everywhere else: no byte of an earlier page is left in it, and the *)
(* bytes past the payload size are zero.  When elf2uf2() succeeds, every   *)
(* page the segments touch has its block.                                  *)
(***************************************************************************)
C6_DecodesToSource ==
    /\ \A k \in 1..Len(out) : out[k].kind = "data" => DataDecodes(out, k)
    /\ (pc = "returned" /\ result = "Ok") =>
         PagesTouched(phs) = { out[k].hdr.target_addr : k \in { j \in 1..Len(out) : out[j].kind = "header" } }

\* the last page holds fragments of two segments and less than a page of bytes
C6_Witness ==
    /\ result = "Ok"
    /\ NumBlocks(out) = 3
    /\ \E a \in DOMAIN pages : Len(pages[a]) = 2
    /\ \E i \in 1..Len(phs) : phs[i].memsz > phs[i].filesz

(***************************************************************************)
(* C7: when realizing the page of block k fails, elf2uf2() fails with an   *)
(* IOError and the stream holds the k whole blocks 0 .. k-1, all flushed,  *)
(* and nothing of block k.                                                 *)
(***************************************************************************)
C7_NoPartialPage ==
    (ioLog # << >> /\ Last(ioLog).op = "realize_failed") =>
        LET k == Last(ioLog).page
        IN /\ result = "IOError"
           /\ WholeBlocks(out)
           /\ NumBlocks(out) = k
           /\ flushed = Len(out)
           /\ \A j \in 0..(k - 1) : HeaderOf(out, j).block_no = j

C7_Witness ==
    /\ ioLog # << >>
    /\ Last(ioLog) = Io("realize_failed", 2)
    /\ NumBlocks(out) = 2
    /\ pc = "done"

(***************************************************************************)
(* C8: per page the stream receives the header, then the whole data        *)
(* region, then the footer, and is flushed; the flush of a block comes     *)
(* after its footer and before the input is read or a byte is written for  *)
(* the next block.                                                         *)
(***************************************************************************)
LoopOps == << "realize", "write_header", "write_data", "write_footer", "flush" >>
LoopFailures == << "realize_failed", "write_failed", "write_failed", "write_failed", "flush_failed" >>

C8_BlockOrderAndFlush ==
    LET n == IF Len(ioLog) > 2 THEN Len(ioLog) - 2 ELSE 0
        failed == n > 0 /\ Last(ioLog).op \in {"realize_failed", "write_failed", "flush_failed"}
        s == IF failed THEN n - 1 ELSE n
        written == 3 * (s \div 5) + (IF s % 5 > 1 THEN (s % 5) - 1 ELSE 0)
    IN /\ \A j \in 0..(n - 1) :
            /\ ioLog[j + 3].page = j \div 5
            /\ ioLog[j + 3].op = (IF j < s THEN LoopOps ELSE LoopFailures)[(j % 5) + 1]
       /\ flushed = 3 * (s \div 5)
       /\ Len(out) \in {written} \cup (IF failed THEN {written + 1} ELSE {})
       /\ \A k \in 1..Len(out) :
            IF k <= written
            THEN /\ out[k].kind = (CASE k % 3 = 1 -> "header" [] k % 3 = 2 -> "data" [] OTHER -> "footer")
                 /\ out[k].kind = "data" => Len(out[k].data) = 476
                 /\ out[k].kind = "footer" => out[k].magic = UF2_MAGIC_END
            ELSE out[k].kind = "partial" /\ Last(ioLog).op = "write_failed"

\* the second page has been read after the flush of the first block
C8_Witness ==
    /\ ioLog # << >>
    /\ Last(ioLog) = Io("realize", 1)
    /\ flushed = 3
    /\ Len(out) = 3

(***************************************************************************)
(* C9, as stated: when elf2uf2() has failed, the output file main()        *)
(* created is gone when main() returns, and main() returns an error.       *)
(***************************************************************************)
C9_FailedRunLeavesNoFile ==
    (pc = "done" /\ result \notin {"none", "Ok"}) =>
        /\ created \notin fsFiles
        /\ mainResult \notin {"none", "Ok"}

(***************************************************************************)
(* C9, amended: the stream only grows, and so does what is flushed.  When  *)
(* elf2uf2() has failed, main() calls remove_file on the file it created   *)
(* (out.uf2 on the volume when deploying, else the output path with the    *)
(* extension uf2) and returns an error: that of elf2uf2() when the file    *)
(* has been removed, that of remove_file, with the file still there, when  *)
(* the removal has failed.                                                 *)
(***************************************************************************)
C9_RemoveAttempted ==
    /\ [][ /\ Len(out') >= Len(out)
           /\ SubSeq(out', 1, Len(out)) = out
           /\ flushed' >= flushed ]_vars
    /\ []( (pc = "done" /\ result \notin {"none", "Ok"}) =>
             /\ created = (IF opts.deploy THEN Path("PICO/out", "uf2")
                           ELSE IF opts.output # NoOutput
                                THEN Path(opts.output.stem, "uf2")
                                ELSE Path(opts.input.stem, "uf2"))
             /\ removeCalled = created
             /\ mainResult \in {result, "RemoveError"}
             /\ mainResult = result => created \notin fsFiles
             /\ mainResult = "RemoveError" => created \in fsFiles )

\* the removal fails after blocks have been written to the volume
C9_Witness ==
    /\ pc = "done"
    /\ opts.deploy
    /\ result = "IOError"
    /\ mainResult = "RemoveError"
    /\ NumBlocks(out) >= 1
    /\ created \in fsFiles

(***************************************************************************)
(* C10: the counter of the loop is the number of blocks emitted so far     *)
(* whenever the loop is between two pages, and equals the total count when *)
(* the last page has been encoded; the progress bar, if there is one, has  *)
(* been advanced once per page but the last inside the loop and once more  *)
(* at the end.                                                             *)
(***************************************************************************)
C10_BlockIndexReachesTotal ==
    /\ pc = "next_page" =>
         /\ enum_count = NumBlocks(out)
         /\ pb.present =>
              pb.added = 512 * (IF enum_count < block_header.num_blocks
                                THEN enum_count ELSE block_header.num_blocks - 1)
    /\ result = "Ok" =>
         /\ enum_count = block_header.num_blocks
         /\ enum_count = Cardinality(DOMAIN pages)
         /\ block_header.block_no = enum_count - 1
         /\ pb.present => pb.added = 512 * enum_count /\ pb.added = pb.total

C10_Witness ==
    /\ result = "Ok"
    /\ pb.present
    /\ enum_count = 3
    /\ pb.added = 1536
====
